---- MODULE Spec2Model ----
(***************************************************************************)
(* A model of noxopt: the session auto-tagging trie (AutoTag / _TagNode)   *)
(* and the per-group option registry (NoxOpt._add_option_to_parser).       *)
(*                                                                         *)
(* Strings are sequences of one-character strings, so that str.split and   *)
(* the f-string that builds a node's tag are computed, not assumed.        *)
(***************************************************************************)
EXTENDS Integers, Sequences, FiniteSets, TLC

VARIABLES
    tag_tree,          \* tag_tree[i]: the trie of AutoTag instance i (path -> node)
    tags,              \* tags[i][f]: the tag list of the f-th handle given to instance i
    names,             \* names[i][f]: the name under which that handle was added
    segs,              \* segs[i][f]: the words that name was written from
    options_by_flags,  \* NoxOpt._options_by_flags: flag string -> Option
    parser,            \* the arguments held by NoxOpt._parser, in the order added
    owner,             \* owner[flag]: the session whose declaration first recorded flag
    last,              \* the last _add_option_to_parser call and its outcome
    resolved,          \* the last parameter resolved and what it resolved to
    registry,          \* the sessions nox.session registered, in order
    setup_funcs,       \* NoxOpt._setup_funcs: prefix -> setup wrappers, keys in order
    decl,              \* the last declaration and its outcome
    run,               \* the last invocation of a session and its outcome
    func_options,      \* the last get_function_options call and its outcome
    legacy             \* legacy[v]: the trie and the tag lists of the _AutoTag of
                       \* source file v, fed the names given to engine 1

vars == <<tag_tree, tags, names, segs, options_by_flags, parser, owner, last,
          resolved, registry, setup_funcs, decl, run, func_options, legacy>>
tagVars == <<tag_tree, tags, names, segs>>
optVars == <<options_by_flags, parser, owner, last>>
sessVars == <<registry, setup_funcs, decl, run>>
auxVars == <<func_options, legacy>>
declVars == <<resolved, sessVars, auxVars>>

-----------------------------------------------------------------------------
(* Bounds *)

MaxSegs == 2
MaxAdds == 3
MaxAddsTwo == 3
MaxRegs == 3
MaxDecls == 3
MaxSessions == 2
MaxSetups == 2
MaxOrderSetups == 3

-----------------------------------------------------------------------------
(* Strings *)

sep == "-"

\* Python's None, as a value no string equals (a string holds single characters).
None == <<"None">>

\* Python truthiness of `str | None`
Truthy(s) == s /= None /\ s /= <<>>

Range(s) == {s[k] : k \in 1..Len(s)}

RECURSIVE SplitFrom(_, _, _, _)
SplitFrom(s, k, cur, acc) ==
    IF k > Len(s) THEN Append(acc, cur)
    ELSE IF s[k] = sep THEN SplitFrom(s, k + 1, <<>>, Append(acc, cur))
    ELSE SplitFrom(s, k + 1, Append(cur, s[k]), acc)

\* name.split(self._sep)
split(name) == SplitFrom(name, 1, <<>>, <<>>)

\* sep.join(words): how the names fed to the engine are written
RECURSIVE join(_)
join(words) ==
    IF Len(words) = 0 THEN <<>>
    ELSE IF Len(words) = 1 THEN words[1]
    ELSE words[1] \o <<sep>> \o join(Tail(words))

-----------------------------------------------------------------------------
(* _TagNode.  A node is addressed by the path of words that leads to it    *)
(* from the root; the root is <<>>.  children keeps the dict's insertion   *)
(* order.                                                                  *)

TagNode(tag) == [tag |-> tag, funcs |-> <<>>, children |-> <<>>]

\* AutoTag.__init__: self._tag_tree = _TagNode()
NewTree == (<<>> :> TagNode(None))

\* a child tagged with its own word only, the parent's tag forgotten
add_node_bare(tree, node, word) ==
    LET child == Append(node, word)
    IN  [q \in DOMAIN tree \cup {child} |->
            IF q = child THEN TagNode(word)
            ELSE IF q = node THEN [tree[q] EXCEPT !.children = Append(@, word)]
            ELSE tree[q]]

add_node(tree, node, word) ==
    LET tag   == IF Truthy(tree[node].tag)
                 THEN tree[node].tag \o <<sep>> \o word
                 ELSE word
        child == Append(node, word)
    IN  [q \in DOMAIN tree \cup {child} |->
            IF q = child THEN TagNode(tag)
            ELSE IF q = node THEN [tree[q] EXCEPT !.children = Append(@, word)]
            ELSE tree[q]]

node_add_func(tree, node, f) == [tree EXCEPT ![node].funcs = Append(@, f)]

\* the tag appended without looking whether the node has one
add_tag_unguarded(tree, tg, node, f) ==
    [tg EXCEPT ![f] = Append(@, tree[node].tag)]

\* the tag assigned in place of the handle's tag list
add_tag_replace(tree, tg, node, f) ==
    IF Truthy(tree[node].tag)
    THEN [tg EXCEPT ![f] = <<tree[node].tag>>]
    ELSE tg

add_tag(tree, tg, node, f) ==
    IF Truthy(tree[node].tag)
    THEN [tg EXCEPT ![f] = Append(@, tree[node].tag)]
    ELSE tg

\* for f in node.funcs: self.add_tag(f)
RECURSIVE add_tag_each(_, _, _, _)
add_tag_each(tree, tg, self, fs) ==
    IF fs = <<>> THEN tg
    ELSE add_tag_each(tree, add_tag(tree, tg, self, Head(fs)), self, Tail(fs))

\* only the child added first
ChildNodes_first(tree, node) ==
    [k \in 1..(IF tree[node].children = <<>> THEN 0 ELSE 1) |->
        Append(node, tree[node].children[k])]

\* node.children.values()
ChildNodes(tree, node) ==
    [k \in 1..Len(tree[node].children) |-> Append(node, tree[node].children[k])]

\* the while loop over to_visit: pop the last, tag its funcs, push its children
RECURSIVE visit(_, _, _, _)
visit(tree, tg, self, to_visit) ==
    IF to_visit = <<>> THEN tg
    ELSE LET node == to_visit[Len(to_visit)]
             rest == SubSeq(to_visit, 1, Len(to_visit) - 1)
         IN  visit(tree, add_tag_each(tree, tg, self, tree[node].funcs), self,
                   rest \o ChildNodes(tree, node))

\* the nodes the while loop over to_visit pops, in the order it pops them
RECURSIVE visit_order(_, _)
visit_order(tree, to_visit) ==
    IF to_visit = <<>> THEN <<>>
    ELSE <<to_visit[Len(to_visit)]>>
         \o visit_order(tree, SubSeq(to_visit, 1, Len(to_visit) - 1)
                               \o ChildNodes(tree, to_visit[Len(to_visit)]))

\* only the funcs stored at the node itself, its subtree left alone
retroactively_add_tags_shallow(tree, tg, self) ==
    add_tag_each(tree, tg, self, tree[self].funcs)

retroactively_add_tags(tree, tg, self) == visit(tree, tg, self, <<self>>)

\* the branch-point test made only when the word is already a child
RECURSIVE walk_no_tag_on_new_child(_, _, _, _, _)
walk_no_tag_on_new_child(tree, tg, node, words, f) ==
    IF words = <<>>
    THEN [tree |-> [tree EXCEPT ![node].funcs = Append(@, f)], tags |-> tg]
    ELSE LET word == Head(words)
             n    == Len(tree[node].children)
         IN  IF word \in Range(tree[node].children)
             THEN walk_no_tag_on_new_child(
                      tree, IF n > 1 THEN add_tag(tree, tg, node, f) ELSE tg,
                      Append(node, word), Tail(words), f)
             ELSE LET tg2 == IF n = 1
                             THEN visit(tree, add_tag(tree, tg, node, f), node,
                                        <<node>>)
                             ELSE tg
                  IN  walk_no_tag_on_new_child(
                          add_node(tree, node, word), tg2,
                          Append(node, word), Tail(words), f)

\* a new child of a node that has children already taken for a new branching
\* point every time
RECURSIVE walk_branch_again(_, _, _, _, _)
walk_branch_again(tree, tg, node, words, f) ==
    IF words = <<>>
    THEN [tree |-> node_add_func(tree, node, f), tags |-> tg]
    ELSE LET word == Head(words)
             n    == Len(tree[node].children)
             tg1  == IF n > 1 THEN add_tag(tree, tg, node, f) ELSE tg
         IN  IF word \in Range(tree[node].children)
             THEN walk_branch_again(tree, tg1, Append(node, word), Tail(words), f)
             ELSE LET tg2 == IF n >= 1
                             THEN retroactively_add_tags(
                                      tree, add_tag(tree, tg1, node, f), node)
                             ELSE tg1
                  IN  walk_branch_again(add_node(tree, node, word), tg2,
                                        Append(node, word), Tail(words), f)

\* one iteration of `for word in name.split(sep)`, then the rest of the loop and
\* the final node.add_func(func)
RECURSIVE walk(_, _, _, _, _)
walk(tree, tg, node, words, f) ==
    IF words = <<>>
    THEN [tree |-> node_add_func(tree, node, f), tags |-> tg]
    ELSE LET word == Head(words)
             n    == Len(tree[node].children)
             tg1  == IF n > 1 THEN add_tag(tree, tg, node, f) ELSE tg
         IN  IF word \in Range(tree[node].children)
             THEN walk(tree, tg1, Append(node, word), Tail(words), f)
             ELSE LET tg2 == IF n = 1
                             THEN retroactively_add_tags(
                                      tree, add_tag(tree, tg1, node, f), node)
                             ELSE tg1
                  IN  walk(add_node(tree, node, word), tg2,
                           Append(node, word), Tail(words), f)

\* AutoTag.add_func(name, func)
add_func(tree, tg, name, f) == walk(tree, tg, <<>>, split(name), f)

\* the source files that carry an older _AutoTag next to _tagging.py; their
\* _TagNode is the one of _tagging.py, line for line
Variants == {"noxopt.py", "__init__.py"}

\* _AutoTag.add_func of noxopt.py, one iteration of its loop and the rest:
\* `if len(node.children) > 1` stands inside `if word in node.children`
RECURSIVE walk_noxopt(_, _, _, _, _)
walk_noxopt(tree, tg, node, words, f) ==
    IF words = <<>>
    THEN [tree |-> node_add_func(tree, node, f), tags |-> tg]
    ELSE LET word == Head(words)
             n    == Len(tree[node].children)
         IN  IF word \in Range(tree[node].children)
             THEN walk_noxopt(tree,
                              IF n > 1 THEN add_tag(tree, tg, node, f) ELSE tg,
                              Append(node, word), Tail(words), f)
             ELSE walk_noxopt(add_node(tree, node, word),
                              IF n = 1
                              THEN retroactively_add_tags(
                                       tree, add_tag(tree, tg, node, f), node)
                              ELSE tg,
                              Append(node, word), Tail(words), f)

\* _AutoTag.add_func of __init__.py, the same loop
RECURSIVE walk_init(_, _, _, _, _)
walk_init(tree, tg, node, words, f) ==
    IF words = <<>>
    THEN [tree |-> node_add_func(tree, node, f), tags |-> tg]
    ELSE LET word == Head(words)
             n    == Len(tree[node].children)
         IN  IF word \in Range(tree[node].children)
             THEN walk_init(tree,
                            IF n > 1 THEN add_tag(tree, tg, node, f) ELSE tg,
                            Append(node, word), Tail(words), f)
             ELSE walk_init(add_node(tree, node, word),
                            IF n = 1
                            THEN retroactively_add_tags(
                                     tree, add_tag(tree, tg, node, f), node)
                            ELSE tg,
                            Append(node, word), Tail(words), f)

\* _AutoTag.add_func(name, func) of source file v
variant_add_func(v, tree, tg, name, f) ==
    IF v = "noxopt.py" THEN walk_noxopt(tree, tg, <<>>, split(name), f)
    ELSE walk_init(tree, tg, <<>>, split(name), f)

-----------------------------------------------------------------------------
(* Option and the option registry of one NoxOpt group *)

UNDEFINED == "UNDEFINED"

\* the Option dataclass: eleven fields, compared field by field by ==
Option(flags, action, default, help, required, type) ==
    [flags |-> flags, action |-> action, choices |-> UNDEFINED, const |-> UNDEFINED,
     default |-> default, dest |-> UNDEFINED, help |-> help, metavar |-> UNDEFINED,
     nargs |-> UNDEFINED, required |-> required, type |-> type]

\* ArgumentParser(): a fresh parser already holds its own -h/--help argument
NewParser ==
    << Option(<< <<"-", "h">>, <<"-", "-", "h", "e", "l", "p">> >>,
              "help", UNDEFINED, UNDEFINED, UNDEFINED, UNDEFINED) >>

OptionStrings(p) == UNION {Range(p[k].flags) : k \in 1..Len(p)}

\* Option.add_argument_to_parser: parser.add_argument(*flags, **kwargs), which
\* refuses an option string the parser already holds
add_argument_to_parser(p, option) ==
    IF Range(option.flags) \cap OptionStrings(p) /= {}
    THEN [parser |-> p, raised |-> "ArgumentError"]
    ELSE [parser |-> Append(p, option), raised |-> "none"]

Conflicting == "ValueError: Conflicting session options"

\* two Options compared by their flags alone
RECURSIVE register_flags_by_flags(_, _, _, _)
register_flags_by_flags(reg, option, k, already_exists) ==
    IF k > Len(option.flags)
    THEN [reg |-> reg, raised |-> "none", already_exists |-> already_exists]
    ELSE LET flag == option.flags[k]
         IN  IF flag \notin DOMAIN reg
             THEN register_flags_by_flags(reg @@ (flag :> option), option, k + 1,
                                          already_exists)
             ELSE IF reg[flag].flags /= option.flags
             THEN [reg |-> reg, raised |-> Conflicting, already_exists |-> already_exists]
             ELSE register_flags_by_flags(reg, option, k + 1, TRUE)

\* already_exists never set
RECURSIVE register_flags_no_dedupe(_, _, _, _)
register_flags_no_dedupe(reg, option, k, already_exists) ==
    IF k > Len(option.flags)
    THEN [reg |-> reg, raised |-> "none", already_exists |-> already_exists]
    ELSE LET flag == option.flags[k]
         IN  IF flag \notin DOMAIN reg
             THEN register_flags_no_dedupe(reg @@ (flag :> option), option, k + 1,
                                           already_exists)
             ELSE IF reg[flag] /= option
             THEN [reg |-> reg, raised |-> Conflicting, already_exists |-> already_exists]
             ELSE register_flags_no_dedupe(reg, option, k + 1, already_exists)

\* `for flag in option.flags:` from its k-th flag on
RECURSIVE register_flags(_, _, _, _)
register_flags(reg, option, k, already_exists) ==
    IF k > Len(option.flags)
    THEN [reg |-> reg, raised |-> "none", already_exists |-> already_exists]
    ELSE LET flag == option.flags[k]
         IN  IF flag \notin DOMAIN reg
             THEN register_flags(reg @@ (flag :> option), option, k + 1, already_exists)
             ELSE IF reg[flag] /= option
             THEN [reg |-> reg, raised |-> Conflicting, already_exists |-> already_exists]
             ELSE register_flags(reg, option, k + 1, TRUE)

\* NoxOpt._add_option_to_parser(option)
add_option_to_parser(reg, p, option) ==
    LET r == register_flags(reg, option, 1, FALSE)
    IN  IF r.raised /= "none"
        THEN [reg |-> r.reg, parser |-> p, raised |-> r.raised, added |-> FALSE]
        ELSE IF ~r.already_exists
        THEN LET a == add_argument_to_parser(p, option)
             IN  [reg |-> r.reg, parser |-> a.parser, raised |-> a.raised,
                  added |-> TRUE]
        ELSE [reg |-> r.reg, parser |-> p, raised |-> "none", added |-> FALSE]

-----------------------------------------------------------------------------
(* Option resolution: what one session parameter resolves to *)

\* Python objects met as defaults, and their truth value bool(v)
PyTrue == "True"
PyFalse == "False"
PyTruthy(v) == v \notin {PyFalse, "0", "None"}

\* callable(annotation): the classes are, a number standing as annotation is not
Types == {"int", "bool", "str"}
callable(t) == t \in Types

\* str.startswith
startswith(s, prefix) ==
    /\ Len(prefix) <= Len(s)
    /\ SubSeq(s, 1, Len(prefix)) = prefix

\* name.replace("_", "-")
replace_underscores(name) ==
    [k \in 1..Len(name) |-> IF name[k] = "_" THEN "-" ELSE name[k]]

\* Option.flags left at UNDEFINED
NoFlags == <<<<UNDEFINED>>>>

FlagError == "ValueError: Option only supports flags"
NotAnOption == "ValueError: metadata must be an Option"
ExtraMetadata == "ValueError: has extra metadata"
NotCallable == "TypeError: annotation is not callable"
NonKeyword == "TypeError: Found non-keyword session parameters"

\* flags of any shape accepted
NewOption_unchecked(flags_is_str, flags, action, default, help, required, type) ==
    [raised |-> "none",
     option |-> Option(IF flags_is_str THEN <<flags>> ELSE flags,
                       action, default, help, required, type)]

\* Option(...): the dataclass constructor followed by __post_init__; a str
\* given as flags becomes a one-element tuple, then every flag must start
\* with a dash
NewOption(flags_is_str, flags, action, default, help, required, type) ==
    LET fl == IF flags_is_str THEN <<flags>> ELSE flags
        o  == Option(fl, action, default, help, required, type)
    IN  IF fl /= NoFlags /\ \E k \in 1..Len(fl) : ~startswith(fl[k], <<"-">>)
        THEN [raised |-> FlagError, option |-> o]
        ELSE [raised |-> "none", option |-> o]

\* dataclasses.replace(opt, ...): a new Option built through the constructor
replace(o) ==
    NewOption(FALSE, o.flags, o.action, o.default, o.help, o.required, o.type)

\* Option(): every field UNDEFINED
EmptyOption ==
    Option(NoFlags, UNDEFINED, UNDEFINED, UNDEFINED, UNDEFINED, UNDEFINED)

Raise(e) == [raised |-> e, option |-> EmptyOption]

\* an item of the Annotated metadata after evaluation
OptionItem(o) == [kind |-> "Option", option |-> o]
OtherItem(kind) == [kind |-> kind, option |-> EmptyOption]

\* "store_false" if default else "store_true" (noxopt.py)
bool_action_truthy(default) ==
    IF PyTruthy(default) THEN "store_false" ELSE "store_true"

\* "store_false" if default is True else "store_true"
bool_action(default) ==
    IF default = PyTrue THEN "store_false" ELSE "store_true"

\* the parameter name used as it is
synthesize_flags_verbatim(o, name) ==
    IF o.flags = NoFlags
    THEN NewOption(TRUE, <<"-", "-">> \o name,
                   o.action, o.default, o.help, o.required, o.type)
    ELSE [raised |-> "none", option |-> o]

\* if opt.flags is UNDEFINED: opt = replace(opt, flags="--" + name.replace("_", "-"))
synthesize_flags(o, name) ==
    IF o.flags = NoFlags
    THEN NewOption(TRUE, <<"-", "-">> \o replace_underscores(name),
                   o.action, o.default, o.help, o.required, o.type)
    ELSE [raised |-> "none", option |-> o]

\* the default set and the option marked required at once
default_or_required_both(o, default) ==
    replace([o EXCEPT !.default = default, !.required = PyTrue])

\* elif default is not UNDEFINED: replace(opt, default=default)
\* else: replace(opt, required=True)
default_or_required(o, default) ==
    IF default /= UNDEFINED
    THEN replace([o EXCEPT !.default = default])
    ELSE replace([o EXCEPT !.required = PyTrue])

\* the extra items looked at before the first one
check_metadata_extra_first(anno_args) ==
    IF Tail(anno_args) /= <<>> THEN ExtraMetadata
    ELSE IF anno_args[1].kind /= "Option" THEN NotAnOption
    ELSE "none"

\* opt_type, opt, *extra_args = anno_args: first `not isinstance(opt, Option)`,
\* then `if extra_args`
check_metadata(anno_args) ==
    IF anno_args[1].kind /= "Option" THEN NotAnOption
    ELSE IF Tail(anno_args) /= <<>> THEN ExtraMetadata
    ELSE "none"

\* _create_option(name, default, annotation); annotation is
\* [annotated, type, meta] with meta the evaluated items after the type
create_option(name, default, annotation) ==
    LET anno_args == IF annotation.annotated THEN annotation.meta
                     ELSE <<OptionItem(EmptyOption)>>
        opt_type  == annotation.type
        bad       == check_metadata(anno_args)
        opt       == anno_args[1].option
    IN  IF bad /= "none" THEN Raise(bad)
        ELSE IF opt.type = UNDEFINED /\ ~callable(opt_type) THEN Raise(NotCallable)
        ELSE
        LET typed == IF opt.type = UNDEFINED
                     THEN replace([opt EXCEPT !.type = opt_type]).option
                     ELSE opt
            r     == IF typed.type = "bool"
                     THEN replace([typed EXCEPT !.action = bool_action(default),
                                                !.type = UNDEFINED,
                                                !.default = UNDEFINED])
                     ELSE default_or_required(typed, default)
        IN  synthesize_flags(r.option, name)

\* _get_annotated_option(annotation) of noxopt.py: `if extra_args` comes
\* before `not isinstance(opt, Option)`
get_annotated_option(annotation) ==
    IF ~annotation.annotated
    THEN IF ~callable(annotation.type) THEN Raise(NotCallable)
         ELSE NewOption(FALSE, NoFlags, UNDEFINED, UNDEFINED, UNDEFINED, UNDEFINED,
                        annotation.type)
    ELSE IF Tail(annotation.meta) /= <<>> THEN Raise(ExtraMetadata)
    ELSE IF annotation.meta[1].kind /= "Option" THEN Raise(NotAnOption)
    ELSE [raised |-> "none", option |-> annotation.meta[1].option]

\* the body of the loop of _get_options_from_function of noxopt.py, for one
\* parameter
get_option_from_parameter(name, default, annotation) ==
    LET a == get_annotated_option(annotation)
    IN  IF a.raised /= "none" THEN a
        ELSE
        LET opt == a.option
            r   == IF default /= UNDEFINED
                   THEN IF opt.type = "bool"
                        THEN replace([opt EXCEPT
                                         !.action = bool_action_truthy(default),
                                         !.type = UNDEFINED])
                        ELSE replace([opt EXCEPT !.default = default])
                   ELSE replace([opt EXCEPT !.required = PyTrue])
        IN  synthesize_flags(r.option, name)

-----------------------------------------------------------------------------
(* self._parser.parse_args(session.posargs): the ArgumentParser over the   *)
(* arguments the declarations added, option strings matched exactly        *)

\* str.lstrip("-")
RECURSIVE lstrip_dashes(_)
lstrip_dashes(s) ==
    IF s /= <<>> /\ s[1] = "-" THEN lstrip_dashes(Tail(s)) ELSE s

\* str.replace("-", "_")
replace_dashes(s) ==
    [k \in 1..Len(s) |-> IF s[k] = "-" THEN "_" ELSE s[k]]

\* the attribute argparse stores an option under: its first long option
\* string, else its first one, without the leading dashes, dashes turned
\* into underscores
dest_of(option) ==
    LET long == {k \in 1..Len(option.flags) : startswith(option.flags[k], <<"-", "-">>)}
        k0   == IF long = {} THEN 1 ELSE CHOOSE k \in long : \A j \in long : k <= j
    IN  replace_dashes(lstrip_dashes(option.flags[k0]))

Digits == {"0", "1", "2", "3", "4", "5", "6", "7", "8", "9"}

\* type(token) returns: int refuses what is not a number, str and bool take
\* any string
convertible(type, token) ==
    type = "int" => (token /= <<>> /\ \A k \in 1..Len(token) : token[k] \in Digits)

\* a command-line token argparse takes for an option string, not for a value
LooksLikeFlag(token) == Len(token) > 1 /\ token[1] = "-"

\* what the namespace holds for an option the command line does not mention;
\* of two options stored under one name the first added gives it
default_of(option) ==
    IF option.default /= UNDEFINED THEN [from |-> "default", value |-> <<option.default>>]
    ELSE IF option.action = "store_true" THEN [from |-> "default", value |-> <<PyFalse>>]
    ELSE IF option.action = "store_false" THEN [from |-> "default", value |-> <<PyTrue>>]
    ELSE [from |-> "default", value |-> <<"None">>]

\* the parser's arguments that end up in the namespace (help does not)
Stored_actions(p) == {j \in 1..Len(p) : p[j].action /= "help"}

Namespace(p) ==
    [d \in {dest_of(p[j]) : j \in Stored_actions(p)} |->
        default_of(p[CHOOSE j \in Stored_actions(p) :
                        /\ dest_of(p[j]) = d
                        /\ \A i \in Stored_actions(p) : dest_of(p[i]) = d => j <= i])]

Exit(code, message, missing) ==
    [exit |-> TRUE, code |-> code, message |-> message, missing |-> missing,
     args |-> <<>>]

\* the options marked required that the command line did not give, in the
\* order the parser holds them
RECURSIVE missing_required(_, _, _)
missing_required(p, seen, j) ==
    IF j > Len(p) THEN <<>>
    ELSE IF p[j].required = PyTrue /\ j \notin seen
    THEN <<p[j].flags>> \o missing_required(p, seen, j + 1)
    ELSE missing_required(p, seen, j + 1)

\* the command line from its k-th token on: an option string is acted on as
\* it is met, the required options are checked at the end of the command
\* line, and only then are unrecognized tokens reported
RECURSIVE parse_from(_, _, _, _, _, _)
parse_from(p, argv, k, seen, args, extras) ==
    IF k > Len(argv)
    THEN IF missing_required(p, seen, 1) /= <<>>
         THEN Exit(2, "the following arguments are required",
                   missing_required(p, seen, 1))
         ELSE IF extras THEN Exit(2, "unrecognized arguments", <<>>)
         ELSE [exit |-> FALSE, code |-> 0, message |-> "none", missing |-> <<>>,
               args |-> args]
    ELSE LET m == {j \in 1..Len(p) : argv[k] \in Range(p[j].flags)}
         IN  IF m = {} THEN parse_from(p, argv, k + 1, seen, args, TRUE)
             ELSE
             LET j == CHOOSE j \in m : TRUE
                 o == p[j]
             IN  IF o.action = "help" THEN Exit(0, "help", <<>>)
                 ELSE IF o.action \in {"store_true", "store_false"}
                 THEN parse_from(p, argv, k + 1, seen \cup {j},
                         [args EXCEPT ![dest_of(o)] =
                            [from |-> "flag",
                             value |-> IF o.action = "store_true" THEN <<PyTrue>>
                                       ELSE <<PyFalse>>]],
                         extras)
                 ELSE IF k = Len(argv) \/ LooksLikeFlag(argv[k + 1])
                 THEN Exit(2, "expected one argument", <<o.flags>>)
                 ELSE IF ~convertible(o.type, argv[k + 1])
                 THEN Exit(2, "invalid value", <<o.flags>>)
                 ELSE parse_from(p, argv, k + 2, seen \cup {j},
                         [args EXCEPT ![dest_of(o)] =
                            [from |-> "argv", value |-> argv[k + 1]]],
                         extras)

\* ArgumentParser.parse_args(argv)
parse_args(p, argv) == parse_from(p, argv, 1, {}, Namespace(p), FALSE)

-----------------------------------------------------------------------------
(* Inputs of the tagging engine *)

Instances == {1, 2}

Words == {<<>>, <<"a">>, <<"b">>}

\* every name of one to n words
WordSeqs(n) == UNION {[1..k -> Words] : k \in 1..n}

\* the session names of test_auto_tag
TestWordSeqs ==
    { <<<<"a">>, <<"x">>, <<"1">>>>, <<<<"a">>, <<"x">>, <<"2">>>>,
      <<<<"a">>, <<"y">>, <<"1">>>>, <<<<"a">>, <<"y">>, <<"2">>>>,
      <<<<"b">>, <<"x">>, <<"1">>>>, <<<<"b">>, <<"x">>, <<"2">>>>,
      <<<<"b">>, <<"x">>, <<"3">>>> }

\* the names given to two engines side by side
TwoWordSeqs ==
    { <<<<"a">>>>, <<<<"a">>, <<"a">>>>, <<<<"a">>, <<"b">>>>, <<<<"b">>>> }

\* the flag strings declared by the sessions
Flag_x == <<"-", "-", "x">>
Flag_y == <<"-", "-", "y">>
Flag_h == <<"-", "h">>

\* one flag, two flags in either order, the same flag twice, the parser's own -h
FlagSeqs ==
    { <<Flag_x>>, <<Flag_y>>, <<Flag_x, Flag_y>>, <<Flag_y, Flag_x>>,
      <<Flag_x, Flag_x>>, <<Flag_h>> }

\* what a parameter resolves to: `p: int = 0`, `p: bool = False`, with or
\* without a help text, under one or several flags
Options ==
    {Option(fl, "store_true", UNDEFINED, h, UNDEFINED, UNDEFINED) :
        fl \in FlagSeqs, h \in {UNDEFINED, "different"}}
    \cup
    {Option(fl, UNDEFINED, "0", h, UNDEFINED, "int") :
        fl \in FlagSeqs, h \in {UNDEFINED, "different"}}

Sessions == {1, 2}

-----------------------------------------------------------------------------
(* Actions *)

\* one trie behind every engine
AddFuncShared(i, ws) ==
    LET f    == Len(tags[i]) + 1
        name == join(ws)
        st   == add_func(tag_tree[i], Append(tags[i], <<>>), name, f)
    IN  /\ tag_tree' = [j \in Instances |-> st.tree]
        /\ tags' = [tags EXCEPT ![i] = st.tags]
        /\ names' = [names EXCEPT ![i] = Append(@, name)]
        /\ segs' = [segs EXCEPT ![i] = Append(@, ws)]
        /\ UNCHANGED <<optVars, declVars>>

\* NoxOpt.session: the host creates the handle with an empty tag list, then
\* self._auto_tag.add_func(session_name, session)
AddFunc(i, ws) ==
    LET f    == Len(tags[i]) + 1
        name == join(ws)
        st   == add_func(tag_tree[i], Append(tags[i], <<>>), name, f)
    IN  /\ tag_tree' = [tag_tree EXCEPT ![i] = st.tree]
        /\ tags' = [tags EXCEPT ![i] = st.tags]
        /\ names' = [names EXCEPT ![i] = Append(@, name)]
        /\ segs' = [segs EXCEPT ![i] = Append(@, ws)]
        /\ UNCHANGED <<optVars, declVars>>

\* get_function_options not called yet
NoCall ==
    [n |-> 0,
     callable |-> [layers |-> <<>>,
                   func |-> [func_name |-> <<>>, name |-> None, params |-> <<>>,
                             varargs |-> FALSE, prefixes |-> <<>>]],
     raised |-> "none", options |-> <<>>]

Init ==
    /\ tag_tree = [i \in Instances |-> NewTree]
    /\ tags = [i \in Instances |-> <<>>]
    /\ names = [i \in Instances |-> <<>>]
    /\ segs = [i \in Instances |-> <<>>]
    /\ options_by_flags = <<>>
    /\ parser = NewParser
    /\ owner = <<>>
    /\ last = [n |-> 0, session |-> 0, raised |-> "none", added |-> FALSE,
               option |-> Option(UNDEFINED, UNDEFINED, UNDEFINED, UNDEFINED,
                                 UNDEFINED, UNDEFINED)]
    /\ resolved = [n |-> 0,
                   param |-> [name |-> <<"n">>, default |-> UNDEFINED,
                              annotation |-> [annotated |-> FALSE, type |-> "int",
                                              meta |-> <<>>]],
                   out |-> Raise("none"), nox |-> Raise("none")]
    /\ registry = <<>>
    /\ setup_funcs = <<>>
    /\ decl = [n |-> 0, s |-> 0, name |-> <<>>, raised |-> "none", events |-> <<>>,
               func |-> [func_name |-> <<>>, name |-> None, params |-> <<>>,
                         varargs |-> FALSE, prefixes |-> <<>>]]
    /\ run = [n |-> 0, session |-> 0, posargs |-> <<>>, wrappers |-> <<>>,
              fail |-> 0, calls |-> <<>>, kwargs |-> <<>>, raised |-> "none",
              parsed |-> Exit(0, "none", <<>>)]
    /\ func_options = NoCall
    /\ legacy = [v \in Variants |-> [tree |-> NewTree, tags |-> <<>>]]

\* one engine, any names of up to MaxSegs words, duplicates and prefixes included
AddAny ==
    \E ws \in WordSeqs(MaxSegs) :
        /\ Len(segs[1]) < MaxAdds
        /\ Range(segs[1]) \subseteq WordSeqs(MaxSegs)
        /\ AddFunc(1, ws)

\* one engine, the sessions of test_auto_tag declared in any order
AddTest ==
    \E ws \in TestWordSeqs :
        /\ Range(segs[1]) \subseteq TestWordSeqs
        /\ ws \notin Range(segs[1])
        /\ AddFunc(1, ws)

Next == AddAny \/ AddTest

Spec == Init /\ [][Next]_vars

\* two engines fed independently
AddTwo ==
    \E i \in Instances, ws \in TwoWordSeqs :
        /\ Len(segs[i]) < MaxAddsTwo
        /\ AddFunc(i, ws)

NextTwo == AddTwo

SpecTwo == Init /\ [][NextTwo]_vars

\* the names given to the three engines side by side: a and its children a,
\* b and the empty word, and names that begin with the separator
VariantWordSeqs ==
    { <<<<"a">>>>, <<<<"a">>, <<"a">>>>, <<<<"a">>, <<"b">>>>, <<<<"a">>, <<>>>>,
      <<<<>>, <<"a">>, <<"a">>>>, <<<<>>, <<"a">>, <<"b">>>> }

\* what the three engines leave when each is given the handle under the name
added_to_all(ws, f, name, st, old) ==
    /\ tag_tree' = [tag_tree EXCEPT ![1] = st.tree]
    /\ tags' = [tags EXCEPT ![1] = st.tags]
    /\ names' = [names EXCEPT ![1] = Append(@, name)]
    /\ segs' = [segs EXCEPT ![1] = Append(@, ws)]
    /\ legacy' = [v \in Variants |-> [tree |-> old[v].tree, tags |-> old[v].tags]]
    /\ UNCHANGED <<optVars, resolved, sessVars, func_options>>

\* the same session handed to AutoTag of _tagging.py and to the _AutoTag of
\* noxopt.py and of __init__.py, each with its own trie and handle
AddFuncVariants(ws) ==
    added_to_all(ws, Len(tags[1]) + 1, join(ws),
                 add_func(tag_tree[1], Append(tags[1], <<>>), join(ws),
                          Len(tags[1]) + 1),
                 [v \in Variants |->
                     variant_add_func(v, legacy[v].tree,
                                      Append(legacy[v].tags, <<>>), join(ws),
                                      Len(legacy[v].tags) + 1)])

AddVariants ==
    \E ws \in VariantWordSeqs :
        /\ Len(segs[1]) < MaxAdds
        /\ AddFuncVariants(ws)

NextVariants == AddVariants

SpecVariants == Init /\ [][NextVariants]_vars

\* the declaration of session s reaches self._add_option_to_parser(option)
AddOptionToParser(s, option) ==
    LET r == add_option_to_parser(options_by_flags, parser, option)
    IN  /\ options_by_flags' = r.reg
        /\ parser' = r.parser
        /\ owner' = [fl \in DOMAIN r.reg |->
                        IF fl \in DOMAIN owner THEN owner[fl] ELSE s]
        /\ last' = [n |-> last.n + 1, session |-> s, raised |-> r.raised,
                    added |-> r.added, option |-> option]
        /\ UNCHANGED <<tagVars, declVars>>

AddOption ==
    \E s \in Sessions, option \in Options :
        /\ last.n < MaxRegs
        /\ AddOptionToParser(s, option)

NextOpt == AddOption

SpecOpt == Init /\ [][NextOpt]_vars

-----------------------------------------------------------------------------
(* Inputs of the option resolution: parameters as the source text declares *)
(* them, Option(...) calls not yet evaluated                               *)

\* the keyword arguments of one Option(...) call; a str given as flags is
\* carried as <<str>> next to flags_is_str
Kw(flags_is_str, flags, action, default, help, required, type) ==
    [flags_is_str |-> flags_is_str, flags |-> flags, action |-> action,
     default |-> default, help |-> help, required |-> required, type |-> type]

Flag_n == <<"-", "n">>
Flag_num == <<"-", "-", "n", "u", "m">>
not_a_flag == <<"n", "o", "t", "-", "a", "-", "f", "l", "a", "g">>

\* Option(), Option(type=...), Option(help=...), Option(required=True),
\* Option(default=5), Option(flags=...) with good flags
GoodKws ==
    { Kw(FALSE, NoFlags, UNDEFINED, UNDEFINED, UNDEFINED, UNDEFINED, UNDEFINED),
      Kw(FALSE, NoFlags, UNDEFINED, UNDEFINED, UNDEFINED, UNDEFINED, "int"),
      Kw(FALSE, NoFlags, UNDEFINED, UNDEFINED, UNDEFINED, UNDEFINED, "bool"),
      Kw(FALSE, NoFlags, UNDEFINED, UNDEFINED, "text", UNDEFINED, UNDEFINED),
      Kw(FALSE, NoFlags, UNDEFINED, UNDEFINED, UNDEFINED, PyTrue, UNDEFINED),
      Kw(FALSE, NoFlags, UNDEFINED, "5", UNDEFINED, UNDEFINED, UNDEFINED),
      Kw(FALSE, <<Flag_n>>, UNDEFINED, UNDEFINED, UNDEFINED, UNDEFINED, UNDEFINED),
      Kw(FALSE, <<Flag_n, Flag_num>>, UNDEFINED, UNDEFINED, UNDEFINED, UNDEFINED,
         UNDEFINED),
      Kw(TRUE, <<Flag_num>>, UNDEFINED, UNDEFINED, UNDEFINED, UNDEFINED, UNDEFINED) }

\* Option(flags=["not-a-flag"]) of test_all_options_are_flags, the same as a
\* str, a bad flag after a good one, the empty string as flag
BadKws ==
    { Kw(FALSE, <<not_a_flag>>, UNDEFINED, UNDEFINED, UNDEFINED, UNDEFINED, UNDEFINED),
      Kw(TRUE, <<not_a_flag>>, UNDEFINED, UNDEFINED, UNDEFINED, UNDEFINED, UNDEFINED),
      Kw(FALSE, <<Flag_n, not_a_flag>>, UNDEFINED, UNDEFINED, UNDEFINED, UNDEFINED,
         UNDEFINED),
      Kw(FALSE, <<<<>>>>, UNDEFINED, UNDEFINED, UNDEFINED, UNDEFINED, UNDEFINED) }

Kws == GoodKws \cup BadKws

\* an item of the Annotated metadata in the source: an Option(...) call, None,
\* or a string
OptionSrc(kw) == [kind |-> "Option", kw |-> kw]
OtherSrc(kind) ==
    [kind |-> kind,
     kw |-> Kw(FALSE, NoFlags, UNDEFINED, UNDEFINED, UNDEFINED, UNDEFINED, UNDEFINED)]
EmptyOptionSrc == OtherSrc("Option")
NoneSrc == OtherSrc("None")
JunkSrc == OtherSrc("str")

\* Annotated[T, item] and Annotated[T, item, item]
MetaSrcs ==
    {<<OptionSrc(kw)>> : kw \in Kws} \cup {<<NoneSrc>>, <<JunkSrc>>}
    \cup {<<m, JunkSrc>> : m \in {EmptyOptionSrc, NoneSrc, JunkSrc}}
    \cup {<<JunkSrc, EmptyOptionSrc>>, <<EmptyOptionSrc, EmptyOptionSrc>>}

\* `p: T` and `p: Annotated[T, ...]`, T a class or the number 5
AnnotationSrcs ==
    {[annotated |-> FALSE, type |-> t, meta |-> <<>>] : t \in Types \cup {"5"}}
    \cup
    {[annotated |-> TRUE, type |-> t, meta |-> m] : t \in Types \cup {"5"},
                                                     m \in MetaSrcs}

ParamNames == { <<"n">>, <<"a", "_", "b">>, <<"_", "x", "_", "_", "y">> }

\* no default, or a default value
Defaults == {UNDEFINED, PyTrue, PyFalse, "0", "1", "None"}

ParamSrcs ==
    {[name |-> nm, default |-> d, annotation |-> a] :
        nm \in ParamNames, d \in Defaults, a \in AnnotationSrcs}

\* the interpreter evaluates one metadata item of the annotation
EvalItem(src) ==
    IF src.kind = "Option"
    THEN LET kw == src.kw
             c  == NewOption(kw.flags_is_str,
                             IF kw.flags_is_str THEN kw.flags[1] ELSE kw.flags,
                             kw.action, kw.default, kw.help, kw.required, kw.type)
         IN  [raised |-> c.raised, item |-> OptionItem(c.option)]
    ELSE [raised |-> "none", item |-> OtherItem(src.kind)]

\* get_type_hints(func, include_extras=True): the annotation evaluated item by
\* item, the first Option(...) call that raises ends it
EvalAnnotation(a) ==
    LET ev  == [k \in 1..Len(a.meta) |-> EvalItem(a.meta[k])]
        bad == {k \in 1..Len(a.meta) : ev[k].raised /= "none"}
    IN  IF bad /= {}
        THEN [raised |-> ev[CHOOSE k \in bad : \A j \in bad : k <= j].raised,
              annotation |-> [annotated |-> a.annotated, type |-> a.type,
                              meta |-> <<>>]]
        ELSE [raised |-> "none",
              annotation |-> [annotated |-> a.annotated, type |-> a.type,
                              meta |-> [k \in 1..Len(a.meta) |-> ev[k].item]]]

\* get_function_options for one parameter: its annotation evaluated, then
\* _create_option(k, d, a)
function_option(p) ==
    LET e == EvalAnnotation(p.annotation)
    IN  IF e.raised /= "none" THEN Raise(e.raised)
        ELSE create_option(p.name, p.default, e.annotation)

\* _get_options_from_function of noxopt.py for one parameter
option_from_function(p) ==
    LET e == EvalAnnotation(p.annotation)
    IN  IF e.raised /= "none" THEN Raise(e.raised)
        ELSE get_option_from_parameter(p.name, p.default, e.annotation)

\* a parameter is declared and resolved, by _option.py and by noxopt.py
Resolve(p) ==
    /\ resolved' = [n |-> 1, param |-> p, out |-> function_option(p),
                    nox |-> option_from_function(p)]
    /\ UNCHANGED <<tagVars, optVars, sessVars, auxVars>>

ResolveAny == \E p \in ParamSrcs : Resolve(p)

NextRes == ResolveAny

SpecRes == Init /\ [][NextRes]_vars

-----------------------------------------------------------------------------
(* get_function_options: the callable handed over is a function, or a      *)
(* function under functools.wraps wrappers and functools.partial objects;  *)
(* layers lists them outermost first, func is the innermost function       *)

\* functools.wraps(f)(wrapper) and functools.partial(f, *args, **keywords)
Wraps == [kind |-> "wraps", args |-> 0, keywords |-> {}]
Partial(args, keywords) == [kind |-> "partial", args |-> args, keywords |-> keywords]

Callable(layers, func) == [layers |-> layers, func |-> func]

\* the attributes getattr finds on the object handed over: a partial object
\* has func, args and keywords; a wrapper has __wrapped__
Attributes(c) ==
    IF c.layers = <<>> THEN {}
    ELSE IF c.layers[1].kind = "partial" THEN {"func", "args", "keywords"}
    ELSE {"__wrapped__"}

DictError == "TypeError: dict expected at most 1 argument, got 3"

\* _MaybeWrappedFunc(func, skip_pos_args_num, skip_kwarg_names): the call of
\* a TypedDict class is the call of dict, which takes one positional
\* argument at most
MaybeWrappedFunc(positional) ==
    IF Len(positional) > 1
    THEN [raised |-> DictError, func |-> positional[1], skip_pos_args_num |-> 0,
          skip_kwarg_names |-> {}]
    ELSE [raised |-> "none", func |-> positional[1], skip_pos_args_num |-> 0,
          skip_kwarg_names |-> {}]

\* _get_maybe_wrapped_func(func): args and kwargs are read from the object
\* handed over, then the __wrapped__ / func links are followed to the
\* innermost function
get_maybe_wrapped_func(c) ==
    MaybeWrappedFunc(<<c.func,
                       IF "args" \in Attributes(c) THEN c.layers[1].args ELSE 0,
                       IF "kwargs" \in Attributes(c) THEN c.layers[1].keywords
                       ELSE {}>>)

\* the parameters of the innermost function that are left: parameters[
\* skip_pos_args_num + 1:], the session being the first, without the names
\* in skip_kwarg_names
RECURSIVE remaining(_, _, _)
remaining(params, k, skip_kwarg_names) ==
    IF k > Len(params) THEN <<>>
    ELSE (IF params[k].name \in skip_kwarg_names THEN <<>> ELSE <<params[k]>>)
         \o remaining(params, k + 1, skip_kwarg_names)

\* {k: _create_option(k, d, a) for ...} from the k-th parameter on
RECURSIVE function_options_from(_, _)
function_options_from(params, k) ==
    IF k > Len(params) THEN [raised |-> "none", options |-> <<>>]
    ELSE IF function_option(params[k]).raised /= "none"
    THEN [raised |-> function_option(params[k]).raised, options |-> <<>>]
    ELSE IF function_options_from(params, k + 1).raised /= "none"
    THEN function_options_from(params, k + 1)
    ELSE [raised |-> "none",
          options |-> <<[param |-> params[k].name,
                         option |-> function_option(params[k]).option]>>
                      \o function_options_from(params, k + 1).options]

\* _get_function_defaults_and_annotations(maybe_wrapped) followed by the
\* dict comprehension of get_function_options
function_defaults_and_options(mw) ==
    IF \E k \in 1..Len(mw.func.params) :
           EvalAnnotation(mw.func.params[k].annotation).raised /= "none"
    THEN [raised |-> FlagError, options |-> <<>>]
    ELSE IF mw.func.varargs THEN [raised |-> NonKeyword, options |-> <<>>]
    ELSE function_options_from(
             remaining(mw.func.params, mw.skip_pos_args_num + 1,
                       mw.skip_kwarg_names), 1)

\* get_function_options(func)
get_function_options(c) ==
    IF get_maybe_wrapped_func(c).raised /= "none"
    THEN [raised |-> get_maybe_wrapped_func(c).raised, options |-> <<>>]
    ELSE function_defaults_and_options(get_maybe_wrapped_func(c))

-----------------------------------------------------------------------------
(* NoxOpt.session, NoxOpt.setup and the invocation of a session *)

\* NoxOpt(auto_tag=True)
auto_tag == TRUE

\* _get_options_from_function(func) from its k-th parameter on: the options
\* in parameter order, or the first error
RECURSIVE options_from(_, _)
options_from(params, k) ==
    IF k > Len(params) THEN [raised |-> "none", options |-> <<>>]
    ELSE LET e    == EvalAnnotation(params[k].annotation)
             o    == get_option_from_parameter(params[k].name, params[k].default,
                                               e.annotation)
             rest == options_from(params, k + 1)
         IN  IF o.raised /= "none" THEN [raised |-> o.raised, options |-> <<>>]
             ELSE IF rest.raised /= "none" THEN rest
             ELSE [raised |-> "none",
                   options |-> <<[param |-> params[k].name, option |-> o.option]>>
                               \o rest.options]

\* get_type_hints evaluates every annotation of the function before anything
\* else; then *args or **kwargs after the session parameter are refused;
\* then the parameters are resolved one by one
get_options_from_function(func) ==
    LET bad == {k \in 1..Len(func.params) :
                    EvalAnnotation(func.params[k].annotation).raised /= "none"}
    IN  IF bad /= {}
        THEN [raised |-> EvalAnnotation(
                             func.params[CHOOSE k \in bad : \A j \in bad : k <= j]
                                 .annotation).raised,
              options |-> <<>>]
        ELSE IF func.varargs THEN [raised |-> NonKeyword, options |-> <<>>]
        ELSE options_from(func.params, 1)

\* `for param_name, option in ...: self._add_option_to_parser(option)` from
\* the k-th option on; what the options before a failing one recorded stays
RECURSIVE add_options(_, _, _, _)
add_options(reg, p, options, k) ==
    IF k > Len(options) THEN [reg |-> reg, parser |-> p, raised |-> "none"]
    ELSE LET r == add_option_to_parser(reg, p, options[k].option)
         IN  IF r.raised /= "none"
             THEN [reg |-> r.reg, parser |-> r.parser, raised |-> r.raised]
             ELSE add_options(r.reg, r.parser, options, k + 1)

\* the wrapper made without a look at the function's parameters
create_parser_wrapper_blind(reg, p, func) ==
    [reg |-> reg, parser |-> p, raised |-> "none", own_params |-> {},
     needs |-> {}]

\* NoxOpt._create_parser_wrapper(func): the closure keeps own_params; needs
\* are the parameters func cannot be called without
create_parser_wrapper(reg, p, func) ==
    LET o == get_options_from_function(func)
    IN  IF o.raised /= "none"
        THEN [reg |-> reg, parser |-> p, raised |-> o.raised, own_params |-> {},
              needs |-> {}]
        ELSE LET a == add_options(reg, p, o.options, 1)
             IN  [reg |-> a.reg, parser |-> a.parser, raised |-> a.raised,
                  own_params |-> {o.options[k].param : k \in 1..Len(o.options)},
                  needs |-> {func.params[k].name : k \in
                                {j \in 1..Len(func.params) :
                                    func.params[j].default = UNDEFINED}}]

\* session_name = name or main_func.__name__.replace("_", "-")
session_name(func) ==
    IF Truthy(func.name) THEN func.name ELSE replace_underscores(func.func_name)

\* the engine never told of the session
auto_tag_add_func_skipped(tree, tg, name, f) ==
    [tree |-> tree, tags |-> tg, added |-> FALSE]

\* if self._auto_tag: self._auto_tag.add_func(session_name, session)
auto_tag_add_func(tree, tg, name, f) ==
    IF auto_tag
    THEN LET st == add_func(tree, tg, name, f)
         IN  [tree |-> st.tree, tags |-> st.tags, added |-> TRUE]
    ELSE [tree |-> tree, tags |-> tg, added |-> FALSE]

\* self._setup_funcs[p].append(wrapper): a dict in insertion order of its keys
append_setup_func(sf, prefix, wrapper) ==
    IF \E i \in 1..Len(sf) : sf[i].prefix = prefix
    THEN [i \in 1..Len(sf) |->
             IF sf[i].prefix = prefix
             THEN [prefix |-> prefix, funcs |-> Append(sf[i].funcs, wrapper)]
             ELSE sf[i]]
    ELSE Append(sf, [prefix |-> prefix, funcs |-> <<wrapper>>])

\* `for p in prefixes or [""]:` from the k-th prefix on
RECURSIVE append_setup_funcs(_, _, _, _)
append_setup_funcs(sf, prefixes, wrapper, k) ==
    IF k > Len(prefixes) THEN sf
    ELSE append_setup_funcs(append_setup_func(sf, prefixes[k], wrapper),
                            prefixes, wrapper, k + 1)

\* every setup function applies, whatever its prefix
RECURSIVE setup_wrappers_for_all(_, _, _)
setup_wrappers_for_all(sf, name, i) ==
    IF i > Len(sf) THEN <<>>
    ELSE sf[i].funcs \o setup_wrappers_for_all(sf, name, i + 1)

\* `for prefix, setup_funcs in self._setup_funcs.items(): if
\* name.startswith(prefix): for f in setup_funcs:` from the i-th key on: the
\* wrappers the session calls, in calling order
RECURSIVE setup_wrappers_for(_, _, _)
setup_wrappers_for(sf, name, i) ==
    IF i > Len(sf) THEN <<>>
    ELSE (IF startswith(name, sf[i].prefix) THEN sf[i].funcs ELSE <<>>)
         \o setup_wrappers_for(sf, name, i + 1)

\* {k: v for k, v in args_dict.items() if k in own_params}
own_kwargs(args_dict, own_params) ==
    [k \in DOMAIN args_dict \cap own_params |-> args_dict[k]]

\* what the wrapper leaves once parse_args has returned parsed
called_with(parsed, w, fails) ==
    IF parsed.exit
    THEN [calls |-> <<>>, kwargs |-> <<>>, raised |-> "SystemExit",
          parsed |-> parsed]
    ELSE IF ~(w.needs \subseteq (DOMAIN parsed.args \cap w.own_params))
    THEN [calls |-> <<>>, kwargs |-> <<>>, raised |-> "TypeError",
          parsed |-> parsed]
    ELSE [calls |-> <<[kind |-> w.kind, id |-> w.id,
                       done |-> IF fails THEN "failed" ELSE "completed"]>>,
          kwargs |-> <<own_kwargs(parsed.args, w.own_params)>>,
          raised |-> IF fails THEN "Exception" ELSE "none",
          parsed |-> parsed]

\* the function called whatever parse_args did
call_wrapper_unparsed(p, posargs, w, fails) ==
    [calls |-> <<[kind |-> w.kind, id |-> w.id,
                  done |-> IF fails THEN "failed" ELSE "completed"]>>,
     kwargs |-> << <<>> >>,
     raised |-> IF fails THEN "Exception" ELSE "none",
     parsed |-> parse_args(p, posargs)]

\* the wrapper of _create_parser_wrapper called with the session: parse_args
\* leaves through SystemExit or gives the namespace; func is then called with
\* the entries of the namespace named like its own parameters, which it
\* refuses if a parameter without default is not among them; kwargs are the
\* keyword arguments of each call made
call_wrapper(p, posargs, w, fails) ==
    called_with(parse_args(p, posargs), w, fails)

\* the wrapper of _create_setup_wrapper from its k-th call on: ws are the
\* setup wrappers that apply followed by the session's own wrapper; the first
\* call that raises ends the invocation
RECURSIVE call_wrappers(_, _, _, _, _)
call_wrappers(p, posargs, ws, failing, k) ==
    LET c == call_wrapper(p, posargs, ws[k], k \in failing)
    IN  IF c.raised /= "none" \/ k = Len(ws) THEN c
        ELSE LET rest == call_wrappers(p, posargs, ws, failing, k + 1)
             IN  [calls |-> c.calls \o rest.calls,
                  kwargs |-> c.kwargs \o rest.kwargs, raised |-> rest.raised,
                  parsed |-> rest.parsed]

-----------------------------------------------------------------------------
(* Inputs of the session declarations and invocations *)

Plain(t) == [annotated |-> FALSE, type |-> t, meta |-> <<>>]
With(t, item) == [annotated |-> TRUE, type |-> t, meta |-> <<item>>]

\* `req: str`, `num: int = 0`, `my_flag: bool = False`
P_req == [name |-> <<"r", "e", "q">>, default |-> UNDEFINED, annotation |-> Plain("str")]
P_num == [name |-> <<"n", "u", "m">>, default |-> "0", annotation |-> Plain("int")]
P_flag ==
    [name |-> <<"m", "y", "_", "f", "l", "a", "g">>, default |-> PyFalse,
     annotation |-> Plain("bool")]

\* `num: Annotated[int, Option(help="text")] = 0`, which conflicts with P_num
P_num_help ==
    [name |-> <<"n", "u", "m">>, default |-> "0",
     annotation |-> With("int", OptionSrc(Kw(FALSE, NoFlags, UNDEFINED, UNDEFINED,
                                              "text", UNDEFINED, UNDEFINED)))]

\* parameters no declaration accepts: a flag without dash, an annotation that
\* is not callable, metadata that is not an Option
P_bad ==
    [name |-> <<"n">>, default |-> "0",
     annotation |-> With("int", OptionSrc(Kw(FALSE, <<not_a_flag>>, UNDEFINED,
                                              UNDEFINED, UNDEFINED, UNDEFINED,
                                              UNDEFINED)))]
P_five == [name |-> <<"n">>, default |-> "0", annotation |-> Plain("5")]
P_junk == [name |-> <<"n">>, default |-> "0", annotation |-> With("int", JunkSrc)]

\* a decorated function: its __name__, the name= given to the decorator, its
\* parameters after the session, whether *args or **kwargs follow
Func(func_name, name, params, varargs) ==
    [func_name |-> func_name, name |-> name, params |-> params,
     varargs |-> varargs, prefixes |-> <<>>]

f_a_x == <<"a", "_", "x">>
f_a_y == <<"a", "_", "y">>
f_b_x == <<"b", "_", "x">>

\* sessions that declare, and sessions whose declaration raises
GoodFuncs ==
    {Func(fn, None, ps, FALSE) : fn \in {f_a_x, f_a_y},
                                 ps \in {<<>>, <<P_req>>, <<P_num>>}}
    \cup {Func(f_b_x, None, <<P_flag>>, FALSE),
          Func(f_b_x, <<"a", "-", "y">>, <<>>, FALSE)}

BadFuncs ==
    {Func(f_a_y, None, ps, FALSE) :
        ps \in {<<P_flag, P_num_help>>, <<P_bad>>, <<P_five>>, <<P_junk>>}}
    \cup {Func(f_a_y, None, <<>>, TRUE)}

Funcs == GoodFuncs \cup BadFuncs

\* the sessions that are invoked: `a_x(session, req: str, num: int = 0)`,
\* `b_x(session, my_flag: bool = False)`, `a_y(session)`
RunFuncs ==
    {Func(f_a_x, None, <<P_req, P_num>>, FALSE),
     Func(f_b_x, None, <<P_flag>>, FALSE),
     Func(f_a_y, None, <<>>, FALSE)}

\* @group.setup, @group.setup("a"), @group.setup("b"),
\* @group.setup("a", "a-x"), and a setup function with an option of its own
SetupFunc(prefixes, params) ==
    [func_name |-> <<"s">>, name |-> None, params |-> params, varargs |-> FALSE,
     prefixes |-> prefixes]

SetupFuncs ==
    {SetupFunc(ps, <<>>) :
        ps \in {<<>>, << <<"a">> >>, << <<"b">> >>,
                << <<"a">>, <<"a", "-", "x">> >>}}
    \cup {SetupFunc(<<>>, <<P_flag>>)}

Tok_req == <<"-", "-", "r", "e", "q">>
Tok_num == <<"-", "-", "n", "u", "m">>
Tok_my_flag == <<"-", "-", "m", "y", "-", "f", "l", "a", "g">>
Tok_zzz == <<"-", "-", "z", "z", "z">>

\* session.posargs
PosArgs ==
    { <<>>, <<Tok_req, <<"v">>>>, <<Flag_h>>, <<Tok_num, <<"x">>>>,
      <<Tok_req, <<"v">>, Tok_my_flag>>, <<Tok_zzz>> }

\* the functions get_function_options is given: up to two parameters after
\* the session, of different names, with or without *args
ParamSeqs ==
    {<<>>} \cup {<<p>> : p \in {P_req, P_num, P_flag, P_five}}
    \cup {<<p, q>> : p \in {P_req, P_num}, q \in {P_flag, P_junk}}
    \cup {<<P_req, P_num>>, <<P_num, P_req>>, <<P_flag, P_req>>, <<P_flag, P_num>>}

\* f, a wrapper of f, partial(f, my_flag=True), partial(f, session),
\* partial(f, session, my_flag=True), a wrapper of partial(f, my_flag=True)
LayerSeqs ==
    { <<>>, <<Wraps>>, <<Partial(0, {P_flag.name})>>, <<Partial(1, {})>>,
      <<Partial(1, {P_flag.name})>>, <<Wraps, Partial(0, {P_flag.name})>> }

Callables ==
    {Callable(l, Func(f_a_x, None, ps, v)) :
        l \in LayerSeqs, ps \in ParamSeqs, v \in BOOLEAN}

-----------------------------------------------------------------------------
(* Actions of the session declarations and invocations *)

\* what a call of get_function_options leaves
function_options_called(c, r) ==
    /\ func_options' = [n |-> 1, callable |-> c, raised |-> r.raised,
                        options |-> r.options]
    /\ UNCHANGED <<tagVars, optVars, resolved, sessVars, legacy>>

\* get_function_options(c) is called
GetFunctionOptions(c) == function_options_called(c, get_function_options(c))

GetAnyFunctionOptions == \E c \in Callables : GetFunctionOptions(c)

NextFun == GetAnyFunctionOptions

SpecFun == Init /\ [][NextFun]_vars

\* what the decorator of NoxOpt.session leaves: w is what
\* _create_parser_wrapper did, f the handle nox.session creates, st what the
\* engine did with it
session_decorator(func, name, w, f, st) ==
        /\ options_by_flags' = w.reg
        /\ parser' = w.parser
        /\ owner' = [fl \in DOMAIN w.reg |->
                        IF fl \in DOMAIN owner THEN owner[fl] ELSE decl.n + 1]
        /\ IF w.raised /= "none"
           THEN /\ decl' = [decl EXCEPT !.n = @ + 1, !.name = name, !.func = func,
                                        !.raised = w.raised, !.events = <<>>]
                /\ UNCHANGED <<tagVars, registry>>
           ELSE /\ registry' =
                      Append(registry,
                             [name |-> name, handle |-> f,
                              tags_at_registration |-> <<>>,
                              wrapper |-> [kind |-> "body", id |-> f,
                                           own_params |-> w.own_params,
                                           needs |-> w.needs, func |-> func]])
                /\ tag_tree' = [tag_tree EXCEPT ![1] = st.tree]
                /\ tags' = [tags EXCEPT ![1] = st.tags]
                /\ names' = IF st.added THEN [names EXCEPT ![1] = Append(@, name)]
                            ELSE names
                /\ segs' = IF st.added THEN [segs EXCEPT ![1] = Append(@, split(name))]
                           ELSE segs
                /\ decl' = [decl EXCEPT
                               !.n = @ + 1, !.name = name, !.func = func,
                               !.raised = "none",
                               !.events = <<"nox.session">> \o
                                          (IF st.added THEN <<"add_func">> ELSE <<>>)]
        /\ UNCHANGED <<last, resolved, setup_funcs, run, auxVars>>

\* NoxOpt.session's decorator: the options are resolved and registered, then
\* nox.session(...)(wrapper) creates the handle with an empty tag list and
\* registers it, then the engine is told
DeclareSession(func) ==
    session_decorator(func, session_name(func),
                      create_parser_wrapper(options_by_flags, parser, func),
                      Len(tags[1]) + 1,
                      auto_tag_add_func(tag_tree[1], Append(tags[1], <<>>),
                                        session_name(func), Len(tags[1]) + 1))

\* what the decorator of NoxOpt.setup leaves: w is what
\* _create_parser_wrapper did
setup_decorator(func, w) ==
        /\ options_by_flags' = w.reg
        /\ parser' = w.parser
        /\ owner' = [fl \in DOMAIN w.reg |->
                        IF fl \in DOMAIN owner THEN owner[fl] ELSE 0]
        /\ setup_funcs' =
              IF w.raised /= "none" THEN setup_funcs
              ELSE append_setup_funcs(setup_funcs,
                                      IF func.prefixes /= <<>> THEN func.prefixes
                                      ELSE << <<>> >>,
                                      [kind |-> "setup", id |-> decl.s + 1,
                                       own_params |-> w.own_params,
                                       needs |-> w.needs, func |-> func],
                                      1)
        /\ decl' = [decl EXCEPT !.s = @ + 1, !.name = <<>>, !.func = func,
                                !.raised = w.raised, !.events = <<>>]
        /\ UNCHANGED <<tagVars, last, resolved, registry, run, auxVars>>

\* NoxOpt.setup's decorator
DeclareSetup(func) ==
    setup_decorator(func, create_parser_wrapper(options_by_flags, parser, func))

\* what an invocation leaves: ws are the wrappers it calls, r what calling
\* them did
invocation(k, posargs, fail, ws, r) ==
        /\ fail <= Len(ws)
        /\ run' = [n |-> 1, session |-> k, posargs |-> posargs, wrappers |-> ws,
                   fail |-> fail, calls |-> r.calls, kwargs |-> r.kwargs,
                   raised |-> r.raised, parsed |-> r.parsed]
        /\ UNCHANGED <<tagVars, optVars, resolved, registry, setup_funcs, decl,
                       auxVars>>

\* the wrappers the session registered k-th calls: the setup wrappers that
\* apply, then its own
wrappers_of(k) ==
    setup_wrappers_for(setup_funcs, registry[k].name, 1) \o <<registry[k].wrapper>>

\* nox runs the session registered k-th: the wrapper of _create_setup_wrapper
\* is called; the fail-th call of a function, if any, raises
Invoke(k, posargs, fail) ==
    invocation(k, posargs, fail, wrappers_of(k),
               call_wrappers(parser, posargs, wrappers_of(k), {fail}, 1))

\* a noxfile is executed: sessions are declared, some of which raise
DeclareAnySession ==
    \E func \in Funcs :
        /\ decl.n < MaxDecls
        /\ DeclareSession(func)

NextDecl == DeclareAnySession

SpecDecl == Init /\ [][NextDecl]_vars

\* a noxfile is executed: sessions and setup functions are declared
DeclareRunSession ==
    \E func \in RunFuncs :
        /\ run.n = 0
        /\ decl.n < MaxSessions
        /\ DeclareSession(func)

DeclareAnySetup ==
    \E func \in SetupFuncs :
        /\ run.n = 0
        /\ decl.s < MaxSetups
        /\ DeclareSetup(func)

\* then nox runs a session of the registry, the one last registered under
\* its name; one invocation is observed
InvokeAny ==
    \E k \in 1..Len(registry), posargs \in PosArgs, fail \in 0..(2 * MaxSetups + 1) :
        /\ run.n = 0
        /\ \A j \in (k + 1)..Len(registry) : registry[j].name /= registry[k].name
        /\ Invoke(k, posargs, fail)

NextSess == DeclareRunSession \/ DeclareAnySetup \/ InvokeAny

SpecSess == Init /\ [][NextSess]_vars

\* `num: Annotated[int, Option(flags=["-n", "--number"])] = 0`: argparse
\* stores it under `number`
Tok_number == <<"-", "-", "n", "u", "m", "b", "e", "r">>
P_number ==
    [name |-> <<"n", "u", "m">>, default |-> "0",
     annotation |-> With("int", OptionSrc(Kw(FALSE, <<Flag_n, Tok_number>>,
                                              UNDEFINED, UNDEFINED, UNDEFINED,
                                              UNDEFINED, UNDEFINED)))]

\* the sessions of a group whose options differ: `a_x(session, req: str, num:
\* Annotated[...] = 0)`, `b_x(session, my_flag: bool = False)`,
\* `a_y(session, num: int = 0)`
ArgFuncs ==
    {Func(f_a_x, None, <<P_req, P_number>>, FALSE),
     Func(f_b_x, None, <<P_flag>>, FALSE),
     Func(f_a_y, None, <<P_num>>, FALSE)}

\* @group.setup with `my_flag: bool = False`, @group.setup("b") with
\* `num: int = 0`
ArgSetupFuncs ==
    {SetupFunc(<<>>, <<P_flag>>), SetupFunc(<< <<"b">> >>, <<P_num>>)}

ArgPosArgs ==
    { <<>>, <<Tok_req, <<"v">>>>, <<Tok_req, <<"v">>, Tok_number, <<"5">>>>,
      <<Tok_number, <<"5">>>>, <<Tok_num, <<"5">>>>, <<Tok_my_flag>> }

\* a noxfile whose sessions and setup functions declare different options
DeclareArgSession ==
    \E func \in ArgFuncs :
        /\ run.n = 0
        /\ decl.n < MaxSessions
        /\ DeclareSession(func)

DeclareArgSetup ==
    \E func \in ArgSetupFuncs :
        /\ run.n = 0
        /\ decl.s < MaxSetups
        /\ DeclareSetup(func)

\* then nox runs one of the sessions, every function completing
InvokeArgs ==
    \E k \in 1..Len(registry), posargs \in ArgPosArgs :
        /\ run.n = 0
        /\ \A j \in (k + 1)..Len(registry) : registry[j].name /= registry[k].name
        /\ Invoke(k, posargs, 0)

NextArgs == DeclareArgSession \/ DeclareArgSetup \/ InvokeArgs

SpecArgs == Init /\ [][NextArgs]_vars

\* `a_x(session)` and `b_x(session)`
OrderFuncs == {Func(f_a_x, None, <<>>, FALSE), Func(f_b_x, None, <<>>, FALSE)}

\* @group.setup, @group.setup("a"), @group.setup("b"), as in test_setup_funcs
OrderSetupFuncs ==
    {SetupFunc(ps, <<>>) : ps \in {<<>>, << <<"a">> >>, << <<"b">> >>}}

\* a noxfile with one session, and setup functions registered before or
\* after it in any order
DeclareOrderSession ==
    \E func \in OrderFuncs :
        /\ run.n = 0
        /\ decl.n = 0
        /\ DeclareSession(func)

DeclareOrderSetup ==
    \E func \in OrderSetupFuncs :
        /\ run.n = 0
        /\ decl.s < MaxOrderSetups
        /\ DeclareSetup(func)

\* then nox runs the session without arguments, every function completing
InvokeOrder ==
    /\ run.n = 0
    /\ Len(registry) = 1
    /\ Invoke(1, <<>>, 0)

NextOrder == DeclareOrderSession \/ DeclareOrderSetup \/ InvokeOrder

SpecOrder == Init /\ [][NextOrder]_vars

-----------------------------------------------------------------------------
(* Vocabulary of the properties *)

Handles(i) == 1..Len(tags[i])

TagSet(i, f) == Range(tags[i][f])

IsPrefix(p, q) == Len(p) <= Len(q) /\ SubSeq(q, 1, Len(p)) = p

StrictPrefix(p, q) == Len(p) < Len(q) /\ SubSeq(q, 1, Len(p)) = p

NoEmptyWord(ws) == \A k \in 1..Len(ws) : ws[k] /= <<>>

\* the node at which handle f of engine i is stored
NodeOf(tree, f) == CHOOSE q \in DOMAIN tree : f \in Range(tree[q].funcs)

\* the handles stored at node p or below it
Stored(tree, p) ==
    UNION {Range(tree[q].funcs) : q \in {r \in DOMAIN tree : IsPrefix(p, r)}}

NumChildren(tree, p) == Cardinality(Range(tree[p].children))

\* the step is an add to engine i
Added(i) == Len(tags'[i]) = Len(tags[i]) + 1

\* distinct names, no empty segment, none a segment-wise prefix of another
PrefixFree(i) ==
    /\ \A f \in Handles(i) : NoEmptyWord(segs[i][f])
    /\ \A f, g \in Handles(i) : f /= g => ~IsPrefix(segs[i][f], segs[i][g])

\* the next segments with which the names added so far continue after p
Continuations(i, p) ==
    {segs[i][g][Len(p) + 1] : g \in {h \in Handles(i) : StrictPrefix(p, segs[i][h])}}

BranchingPrefixes(i, f) ==
    {p \in {SubSeq(segs[i][f], 1, k) : k \in 1..(Len(segs[i][f]) - 1)} :
        Cardinality(Continuations(i, p)) >= 2}

T_a == <<"a">>
T_ax == <<"a", "-", "x">>
T_ay == <<"a", "-", "y">>
T_bx == <<"b", "-", "x">>

N_ax1 == <<<<"a">>, <<"x">>, <<"1">>>>
N_ax2 == <<<<"a">>, <<"x">>, <<"2">>>>
N_ay1 == <<<<"a">>, <<"y">>, <<"1">>>>
N_ay2 == <<<<"a">>, <<"y">>, <<"2">>>>
N_bx1 == <<<<"b">>, <<"x">>, <<"1">>>>
N_bx2 == <<<<"b">>, <<"x">>, <<"2">>>>
N_bx3 == <<<<"b">>, <<"x">>, <<"3">>>>

ExampleOrder == <<N_ax1, N_ax2, N_ay1, N_ay2, N_bx1, N_bx2>>

-----------------------------------------------------------------------------
(* C1: after every add of distinct, prefix-free names with non-empty       *)
(* segments, each handle carries exactly the tags of the proper prefixes   *)
(* of its name after which the names added so far continue with two or     *)
(* more distinct segments; a-x-1, a-x-2, a-y-1, a-y-2, b-x-1, b-x-2 in     *)
(* that order give {a, a-x}, {a, a-x}, {a, a-y}, {a, a-y}, {b-x}, {b-x}.   *)
C1_BranchingPrefixTags ==
    /\ \A i \in Instances :
          PrefixFree(i) =>
              \A f \in Handles(i) :
                  TagSet(i, f) = {join(p) : p \in BranchingPrefixes(i, f)}
    /\ segs[1] = ExampleOrder =>
          /\ TagSet(1, 1) = {T_a, T_ax}
          /\ TagSet(1, 2) = {T_a, T_ax}
          /\ TagSet(1, 3) = {T_a, T_ay}
          /\ TagSet(1, 4) = {T_a, T_ay}
          /\ TagSet(1, 5) = {T_bx}
          /\ TagSet(1, 6) = {T_bx}

C1_Witness ==
    /\ segs[1] = ExampleOrder
    /\ names[1][6] = <<"b", "-", "x", "-", "2">>
    /\ TagSet(1, 1) = {T_a, T_ax}

(* C2: in the add that gives a node with a tag its second distinct child,  *)
(* every handle stored in that node's subtree before the add did not carry *)
(* the node's tag and carries it after the add.                            *)
C2_Retroactive ==
    [][\A i \in Instances :
          Added(i) =>
              \A p \in DOMAIN tag_tree[i] :
                  ( /\ Truthy(tag_tree[i][p].tag)
                    /\ NumChildren(tag_tree[i], p) = 1
                    /\ NumChildren(tag_tree'[i], p) = 2 )
                  => \A f \in Stored(tag_tree[i], p) :
                        /\ tag_tree[i][p].tag \notin TagSet(i, f)
                        /\ tag_tree[i][p].tag \in Range(tags'[i][f])]_vars

\* a-x-1, a-x-2, then a-y-1: both earlier handles, two levels below a, carry a
C2_Witness ==
    /\ segs[1] = <<N_ax1, N_ax2, N_ay1>>
    /\ T_a \in TagSet(1, 1)
    /\ T_a \in TagSet(1, 2)
    /\ Len(NodeOf(tag_tree[1], 1)) = 3

(* C3: two engines given the same set of distinct names, in whatever       *)
(* orders, leave every name with the same tag set.                         *)
DistinctNames(i) ==
    \A f, g \in Handles(i) : f /= g => names[i][f] /= names[i][g]

C3_OrderIndependent ==
    ( /\ DistinctNames(1)
      /\ DistinctNames(2)
      /\ Range(names[1]) = Range(names[2]) )
    => \A f \in Handles(1), g \in Handles(2) :
          names[1][f] = names[2][g] => TagSet(1, f) = TagSet(2, g)

(* C4: a handle whose add walks through a non-root node that has a tag and *)
(* already has two or more children receives that node's tag, whether it   *)
(* descends into an existing child or creates a new one.                   *)
C4_TagAtBranchPoint ==
    [][\A i \in Instances :
          Added(i) =>
              LET f == Len(tags'[i])
                  q == NodeOf(tag_tree'[i], f)
              IN  \A p \in DOMAIN tag_tree[i] :
                      ( /\ p /= <<>>
                        /\ StrictPrefix(p, q)
                        /\ Truthy(tag_tree[i][p].tag)
                        /\ NumChildren(tag_tree[i], p) >= 2 )
                      => tag_tree[i][p].tag \in Range(tags'[i][f])]_vars

\* b-x-3 arrives when b-x has the children 1 and 2, and is made its third
C4_Witness ==
    /\ segs[1] = <<N_bx1, N_bx2, N_bx3>>
    /\ TagSet(1, 3) = {T_bx}
    /\ NumChildren(tag_tree[1], <<<<"b">>, <<"x">>>>) = 3

(* C5: a non-root node's tag is attached to a handle if and only if the    *)
(* handle's add ended at or passed through the node and the node has, then *)
(* or later, two or more children (names without empty segments).          *)
C5_TagIffBranchOnPath ==
    \A i \in Instances :
        (\A g \in Handles(i) : NoEmptyWord(segs[i][g])) =>
            \A f \in Handles(i) :
                \A p \in DOMAIN tag_tree[i] \ {<<>>} :
                    tag_tree[i][p].tag \in TagSet(i, f)
                    <=> ( /\ IsPrefix(p, NodeOf(tag_tree[i], f))
                          /\ NumChildren(tag_tree[i], p) >= 2 )

(* C6: no handle ever carries an empty or undefined tag, and when no two   *)
(* names begin with the same segment every handle has no tag at all, even  *)
(* though the root then has several children.                              *)
DistinctFirstSegments(i) ==
    \A f, g \in Handles(i) : f /= g => segs[i][f][1] /= segs[i][g][1]

C6_RootNeverTags ==
    \A i \in Instances :
        /\ \A f \in Handles(i) : \A k \in 1..Len(tags[i][f]) : Truthy(tags[i][f][k])
        /\ DistinctFirstSegments(i) => \A f \in Handles(i) : tags[i][f] = <<>>

\* three names with three first segments, one of them empty: the root has
\* three children and a handle lies two levels below it
C6_Witness ==
    /\ Len(segs[1]) = 3
    /\ DistinctFirstSegments(1)
    /\ NumChildren(tag_tree[1], <<>>) = 3
    /\ \E f \in Handles(1) : Len(segs[1][f]) = 2
    /\ \A f \in Handles(1) : tags[1][f] = <<>>

(* C7: an add never removes a tag from a handle, and never removes a child *)
(* from a node, so a branch point stays one.                               *)
C7_TagsNeverLost ==
    [][\A i \in Instances :
          /\ \A f \in Handles(i) :
                /\ f \in 1..Len(tags'[i])
                /\ IsPrefix(tags[i][f], tags'[i][f])
          /\ \A p \in DOMAIN tag_tree[i] :
                /\ p \in DOMAIN tag_tree'[i]
                /\ IsPrefix(tag_tree[i][p].children, tag_tree'[i][p].children)
                /\ tag_tree'[i][p].tag = tag_tree[i][p].tag]_vars

\* a handle that already had a tag gained a second one in a later add
C7_Witness ==
    /\ segs[1] = <<N_ax1, N_ax2, N_ay1>>
    /\ tags[1][1] = <<T_ax, T_a>>
    /\ NumChildren(tag_tree[1], <<<<"a">>>>) = 2

-----------------------------------------------------------------------------
(* Vocabulary of the option properties *)

\* the step is a call of _add_option_to_parser
Registered == last'.n = last.n + 1

\* a flag of option o is recorded with a structurally different Option
RecordedDifferent(o) ==
    \E k \in 1..Len(o.flags) :
        o.flags[k] \in DOMAIN options_by_flags /\ options_by_flags[o.flags[k]] /= o

\* a flag of option o is recorded with an Option identical to o
RecordedIdentical(o) ==
    \E k \in 1..Len(o.flags) :
        o.flags[k] \in DOMAIN options_by_flags /\ options_by_flags[o.flags[k]] = o

\* how many arguments of the parser carry the flag
TimesInParser(flag) ==
    Cardinality({k \in 1..Len(parser) : flag \in Range(parser[k].flags)})

(* C9: registering an Option one of whose flags is recorded with a         *)
(* structurally different Option raises the 'Conflicting session options'  *)
(* ValueError, whichever session recorded it; registering an Option        *)
(* identical to the one recorded raises nothing.                           *)
C9_FlagConflict ==
    [][Registered =>
          /\ RecordedDifferent(last'.option) => last'.raised = Conflicting
          /\ (RecordedIdentical(last'.option) /\ ~RecordedDifferent(last'.option))
                => last'.raised = "none"]_vars

\* session 2 declares --x with a help text after session 1 declared it without
C9_Witness ==
    /\ last.raised = Conflicting
    /\ last.session = 2
    /\ last.option.flags = <<Flag_x>>
    /\ last.option.help = "different"
    /\ owner[Flag_x] = 1
    /\ options_by_flags[Flag_x].help = UNDEFINED
    /\ options_by_flags[Flag_x].type = last.option.type

(* C10: an Option identical to a recorded one is not handed to the parser  *)
(* again, and the parser never holds a flag string twice.                  *)
C10_Deduplicated ==
    /\ [](\A flag \in DOMAIN options_by_flags \cup OptionStrings(parser) :
             TimesInParser(flag) <= 1)
    /\ [][(Registered /\ RecordedIdentical(last'.option)) =>
             /\ ~last'.added
             /\ parser' = parser]_vars

\* a second session declared the very Option of the first: one argument only
C10_Witness ==
    /\ last.n = 2
    /\ last.session = 2
    /\ last.raised = "none"
    /\ ~last.added
    /\ last.option.flags = <<Flag_x, Flag_y>>
    /\ owner[Flag_y] = 1
    /\ options_by_flags[Flag_y] = last.option
    /\ TimesInParser(Flag_y) = 1

-----------------------------------------------------------------------------
(* Vocabulary of the resolution properties *)

\* a parameter has been resolved; it resolved to an Option
Ran == resolved.n = 1
Resolved == Ran /\ resolved.out.raised = "none"

\* the Option(...) keyword arguments that govern the parameter: those of the
\* first metadata item, none for a plain annotation
MetaKw(p) ==
    IF p.annotation.annotated THEN p.annotation.meta[1].kw
    ELSE Kw(FALSE, NoFlags, UNDEFINED, UNDEFINED, UNDEFINED, UNDEFINED, UNDEFINED)

\* the type the parameter resolves to: the metadata's, else the annotation's
ResolvedType(p) ==
    IF MetaKw(p).type /= UNDEFINED THEN MetaKw(p).type ELSE p.annotation.type

StartsWithDash(f) == Len(f) > 0 /\ f[1] = "-"

HasBadFlag(kw) ==
    /\ kw.flags /= NoFlags
    /\ \E k \in 1..Len(kw.flags) : ~StartsWithDash(kw.flags[k])

\* some Option(...) call of the annotation is given a flag without a dash
DeclaresBadFlag(p) ==
    \E j \in 1..Len(p.annotation.meta) :
        p.annotation.meta[j].kind = "Option" /\ HasBadFlag(p.annotation.meta[j].kw)

-----------------------------------------------------------------------------
(* C11: a parameter whose resolved type is bool resolves to an Option with *)
(* action store_true when its default is falsy or absent and store_false   *)
(* when its default is truthy, with type and default unset and required    *)
(* left as the metadata has it.                                            *)
C11_BoolResolution ==
    (Resolved /\ ResolvedType(resolved.param) = "bool") =>
        /\ resolved.out.option.action =
              IF resolved.param.default /= UNDEFINED
                 /\ PyTruthy(resolved.param.default)
              THEN "store_false" ELSE "store_true"
        /\ resolved.out.option.type = UNDEFINED
        /\ resolved.out.option.default = UNDEFINED
        /\ resolved.out.option.required = MetaKw(resolved.param).required

(* C12 as stated: a parameter whose resolved type is not bool resolves to  *)
(* an Option that carries the parameter's default and is not required when *)
(* there is a default, and is required with no default when there is none, *)
(* whatever the metadata.                                                  *)
C12_DefaultOrRequired_AsStated ==
    (Resolved /\ ResolvedType(resolved.param) /= "bool") =>
        IF resolved.param.default /= UNDEFINED
        THEN /\ resolved.out.option.default = resolved.param.default
             /\ resolved.out.option.required /= PyTrue
        ELSE /\ resolved.out.option.required = PyTrue
             /\ resolved.out.option.default = UNDEFINED

(* C12: a parameter whose resolved type is not bool resolves to an Option  *)
(* that carries the parameter's default and keeps the metadata's required  *)
(* field when there is a default, and is marked required and keeps the     *)
(* metadata's default field when there is none; so it is not required,     *)
(* respectively has no default, when the metadata sets neither field.      *)
C12_DefaultOrRequired ==
    (Resolved /\ ResolvedType(resolved.param) /= "bool") =>
        IF resolved.param.default /= UNDEFINED
        THEN /\ resolved.out.option.default = resolved.param.default
             /\ resolved.out.option.required = MetaKw(resolved.param).required
        ELSE /\ resolved.out.option.required = PyTrue
             /\ resolved.out.option.default = MetaKw(resolved.param).default

\* `p: Annotated[int, Option(required=True)] = 1` has been resolved
C12_Witness ==
    /\ Resolved
    /\ ResolvedType(resolved.param) = "int"
    /\ resolved.param.default = "1"
    /\ MetaKw(resolved.param).required = PyTrue
    /\ resolved.out.option.default = "1"
    /\ resolved.out.option.required = PyTrue

(* C13: when the metadata sets no flags the resolved Option has exactly    *)
(* one flag, two dashes followed by the parameter name with every          *)
(* underscore turned into a dash; flags the metadata sets are kept.        *)
C13_FlagSynthesis ==
    Resolved =>
        LET name  == resolved.param.name
            flags == resolved.out.option.flags
        IN  IF MetaKw(resolved.param).flags = NoFlags
            THEN /\ Len(flags) = 1
                 /\ Len(flags[1]) = Len(name) + 2
                 /\ flags[1][1] = "-" /\ flags[1][2] = "-"
                 /\ \A k \in 1..Len(name) :
                        flags[1][k + 2] = (IF name[k] = "_" THEN "-" ELSE name[k])
            ELSE flags = MetaKw(resolved.param).flags

\* a name with underscores has been given its flag
C13_Witness ==
    /\ Resolved
    /\ resolved.param.name = <<"a", "_", "b">>
    /\ MetaKw(resolved.param).flags = NoFlags
    /\ resolved.out.option.flags = << <<"-", "-", "a", "-", "b">> >>

(* C14: every flag of every Option a resolution returns starts with a      *)
(* dash, and a parameter whose annotation calls Option with a flag that    *)
(* does not start with a dash fails to resolve with the ValueError         *)
(* 'Option only supports flags'.                                           *)
C14_FlagsStartWithDash ==
    Ran =>
        /\ \A r \in {resolved.out, resolved.nox} :
              r.raised = "none" =>
                  \A k \in 1..Len(r.option.flags) : StartsWithDash(r.option.flags[k])
        /\ DeclaresBadFlag(resolved.param) =>
              /\ resolved.out.raised = FlagError
              /\ resolved.nox.raised = FlagError

\* Option(flags=["not-a-flag"]) has been refused
C14_Witness ==
    /\ Ran
    /\ resolved.param.annotation.annotated
    /\ MetaKw(resolved.param).flags = <<not_a_flag>>
    /\ resolved.out.raised = FlagError

C19_NoneIsNotAnOption ==
    (/\ Ran
     /\ resolved.param.annotation.annotated
     /\ resolved.param.annotation.meta = <<NoneSrc>>) =>
        /\ resolved.out.raised = "none"
        /\ resolved.nox.raised = "none"

-----------------------------------------------------------------------------
(* Vocabulary of the session properties *)

\* a session has been invoked; its entry in the registry
Invoked == run.n = 1
Entry == registry[run.session]

\* the positions of run.calls at which the session body was called
BodyCalls == {i \in 1..Len(run.calls) : run.calls[i].kind = "body"}

\* the arguments of the parser that stand for the parameters without
\* default of wrapper w
RequiredOf(w) ==
    {j \in 1..Len(parser) :
        \E q \in w.needs : parser[j].flags = << <<"-", "-">> \o replace_underscores(q) >>}

\* those of them none of whose flags is on the command line
AbsentRequired ==
    {j \in RequiredOf(Entry.wrapper) :
        Range(parser[j].flags) \cap Range(run.posargs) = {}}

\* the setup functions registered under a prefix the name starts with, and
\* the others
SetupIds(i) == {setup_funcs[i].funcs[j].id : j \in 1..Len(setup_funcs[i].funcs)}
Applicable(name) ==
    UNION {SetupIds(i) : i \in {k \in 1..Len(setup_funcs) :
                                    startswith(name, setup_funcs[k].prefix)}}
Registered_setups == UNION {SetupIds(i) : i \in 1..Len(setup_funcs)}

\* how many times handle f is stored in the trie
TimesStored(tree, f) ==
    Cardinality({qi \in {<<q, i>> : q \in DOMAIN tree, i \in 1..Len(tags[1])} :
                    /\ qi[2] <= Len(tree[qi[1]].funcs)
                    /\ tree[qi[1]].funcs[qi[2]] = f})

-----------------------------------------------------------------------------
C17_SetupBeforeBody ==
    Invoked =>
        /\ \A b \in BodyCalls : \A id \in Applicable(Entry.name) :
              \E i \in 1..(b - 1) :
                  run.calls[i] = [kind |-> "setup", id |-> id, done |-> "completed"]
        /\ \A i \in 1..Len(run.calls) :
              run.calls[i].kind = "setup" => run.calls[i].id \in Applicable(Entry.name)
        /\ (\E i \in 1..Len(run.calls) :
                run.calls[i].kind = "setup" /\ run.calls[i].done = "failed")
              => BodyCalls = {}

\* a body was called after the one setup function that applies, and another
\* setup function does not apply
C17_Witness ==
    /\ Invoked
    /\ BodyCalls /= {}
    /\ Applicable(Entry.name) /= {}
    /\ Registered_setups \ Applicable(Entry.name) /= {}
    /\ run.calls[1].kind = "setup"

C20_DeclarationErrorsAbort ==
    [][decl'.n = decl.n + 1 =>
          /\ decl'.func.varargs => decl'.raised = NonKeyword
          /\ decl'.func.params = <<P_five>> => decl'.raised = NotCallable
          /\ decl'.func.params = <<P_junk>> => decl'.raised = NotAnOption
          /\ decl'.func.params = <<P_bad>> => decl'.raised = FlagError
          /\ (/\ decl'.func.params = <<P_flag, P_num_help>>
              /\ Tok_num \in DOMAIN options_by_flags
              /\ options_by_flags[Tok_num].help /= "text")
                => decl'.raised = Conflicting
          /\ decl'.raised /= "none" =>
                /\ registry' = registry
                /\ UNCHANGED tagVars]_vars

\* a-x(num: int = 0) is registered, then a-y fails on its conflicting num
C20_Witness ==
    /\ decl.n = 2
    /\ decl.raised = Conflicting
    /\ decl.name = <<"a", "-", "y">>
    /\ Len(registry) = 1
    /\ registry[1].name = <<"a", "-", "x">>
    /\ tags[1] = << <<>> >>

-----------------------------------------------------------------------------
(* Vocabulary of the get_function_options properties *)

\* get_function_options has been called
Called == func_options.n = 1

\* the positional and keyword arguments the functools.partial objects of the
\* callable bind
BoundPositional(c) ==
    IF \E k \in 1..Len(c.layers) : c.layers[k].kind = "partial"
    THEN c.layers[CHOOSE k \in 1..Len(c.layers) : c.layers[k].kind = "partial"].args
    ELSE 0
BoundKeywords(c) == UNION {c.layers[k].keywords : k \in 1..Len(c.layers)}

\* the positions, among the parameters after the session, of those that no
\* partial binds: the first positional argument a partial binds is the session
Unbound(c) ==
    {k \in 1..Len(c.func.params) :
        /\ k > BoundPositional(c) - 1
        /\ c.func.params[k].name \notin BoundKeywords(c)}

\* the parameters left are keyword-capable and validly annotated
Resolvable(c) ==
    /\ ~c.func.varargs
    /\ \A k \in Unbound(c) : function_option(c.func.params[k]).raised = "none"

(* C21: get_function_options returns, and does not raise, for every        *)
(* callable whose parameters left after the session and the ones a         *)
(* functools.partial binds are keyword-capable and validly annotated; the  *)
(* mapping has exactly one entry for each of them, the resolved Option.     *)
C21_OneOptionPerParameter ==
    (Called /\ Resolvable(func_options.callable)) =>
        /\ func_options.raised = "none"
        /\ {func_options.options[k].param : k \in 1..Len(func_options.options)}
              = {func_options.callable.func.params[k].name :
                    k \in Unbound(func_options.callable)}
        /\ \A k \in 1..Len(func_options.options) :
              \E j \in Unbound(func_options.callable) :
                  /\ func_options.callable.func.params[j].name
                        = func_options.options[k].param
                  /\ function_option(func_options.callable.func.params[j]).option
                        = func_options.options[k].option

-----------------------------------------------------------------------------
(* Vocabulary of the keyword-argument properties *)

\* the options the function of wrapper w declares, in parameter order
DeclaredBy(w) == get_options_from_function(w.func).options

\* the group that holds only the declarations of the wrappers ws: its parser
RECURSIVE alone_parser(_, _, _, _)
alone_parser(ws, k, reg, p) ==
    IF k > Len(ws) THEN p
    ELSE alone_parser(ws, k + 1,
                      create_parser_wrapper(reg, p, ws[k].func).reg,
                      create_parser_wrapper(reg, p, ws[k].func).parser)

\* the invocation observed, made in that group
Alone ==
    call_wrappers(alone_parser(run.wrappers, 1, <<>>, NewParser), run.posargs,
                  run.wrappers, {run.fail}, 1)

(* C22: when a session is invoked and argument parsing succeeds, every      *)
(* setup function and the body are called, each with exactly one keyword    *)
(* for each option parameter it declares, equal to the value parsed for     *)
(* that parameter's flags, and with no other keyword; also when the Option  *)
(* sets flags that differ from the parameter name.                          *)
C22_OwnKeywords ==
    (Invoked /\ ~run.parsed.exit) =>
        /\ run.raised /= "TypeError"
        /\ \A i \in 1..Len(run.calls) :
              /\ DOMAIN run.kwargs[i]
                    = {DeclaredBy(run.wrappers[i])[k].param :
                          k \in 1..Len(DeclaredBy(run.wrappers[i]))}
              /\ \A k \in 1..Len(DeclaredBy(run.wrappers[i])) :
                    LET d == DeclaredBy(run.wrappers[i])[k]
                    IN  d.param \in DOMAIN run.kwargs[i] =>
                            run.kwargs[i][d.param] = run.parsed.args[dest_of(d.option)]

(* C30: whether the argument parsing of an invoked session succeeds, and    *)
(* the keyword values its setup functions and its body receive, are what    *)
(* they are in a group that holds only that session and its matching setup  *)
(* functions: the options other sessions declare change neither.            *)
C30_NoInterference ==
    Invoked =>
        /\ Alone.parsed.exit = run.parsed.exit
        /\ Alone.kwargs = run.kwargs

-----------------------------------------------------------------------------
(* C23: in every invocation of a session the setup functions that match,   *)
(* those registered without prefix or under a prefix the name starts with, *)
(* are called in the order in which they were registered with the group,   *)
(* each once, however registrations without and with prefix interleave.    *)
C23_RegistrationOrder ==
    (Invoked /\ run.raised = "none") =>
        /\ {run.calls[i].id : i \in {j \in 1..Len(run.calls) :
                                        run.calls[j].kind = "setup"}}
              = Applicable(Entry.name)
        /\ \A i, j \in 1..Len(run.calls) :
              (/\ i < j
               /\ run.calls[i].kind = "setup"
               /\ run.calls[j].kind = "setup")
                 => run.calls[i].id < run.calls[j].id

-----------------------------------------------------------------------------
(* Vocabulary of the traversal properties *)

\* the nodes of the subtree rooted at node p
Subtree(tree, p) == {q \in DOMAIN tree : IsPrefix(p, q)}

\* how many times x occurs in the sequence s
Count(s, x) == Cardinality({k \in 1..Len(s) : s[k] = x})

\* the step is an add to engine 1 that calls retroactively_add_tags on
\* node p: p had one child and is given a second one
Retroactive(p) ==
    /\ Added(1)
    /\ p \in DOMAIN tag_tree[1]
    /\ Len(tag_tree[1][p].children) = 1
    /\ Len(tag_tree'[1][p].children) = 2

(* C24: every add ends, and the call of retroactively_add_tags it makes on *)
(* a branching node ends after popping every node of the subtree rooted    *)
(* there exactly once: every handle stored in the subtree is handed to the *)
(* node's add_tag exactly once, so that its tag list grows by the node's   *)
(* tag, once, when the node has a tag, and the tag list of every handle    *)
(* stored outside the subtree is left as it was.                           *)
C24_SubtreeVisitedOnce ==
    [][\A p \in DOMAIN tag_tree[1] :
          Retroactive(p) =>
              /\ \A q \in Subtree(tag_tree[1], p) :
                    Count(visit_order(tag_tree[1], <<p>>), q) = 1
              /\ Range(visit_order(tag_tree[1], <<p>>)) = Subtree(tag_tree[1], p)
              /\ \A f \in Handles(1) :
                    tags'[1][f] =
                       IF f \in Stored(tag_tree[1], p) /\ Truthy(tag_tree[1][p].tag)
                       THEN Append(tags[1][f], tag_tree[1][p].tag)
                       ELSE tags[1][f]]_vars

\* b-x-1, a-x-1, a-x-2, then a-y-1: the call on node a has reached the two
\* handles two levels below it, once each, and not the handle under b
C24_Witness ==
    /\ segs[1] = <<N_bx1, N_ax1, N_ax2, N_ay1>>
    /\ tags[1][1] = <<>>
    /\ tags[1][2] = <<T_ax, T_a>>
    /\ tags[1][3] = <<T_ax, T_a>>
    /\ tags[1][4] = <<T_a>>
    /\ Len(visit_order(tag_tree[1], << <<"a">> >>)) = 6

-----------------------------------------------------------------------------
(* C25: after any sequence of adds, names with empty segments, duplicate   *)
(* names and names that are prefixes of other names included, every tag a  *)
(* handle carries is not empty, is its name's first segments joined by the *)
(* separator, and the trie node those segments lead to has two or more     *)
(* children.                                                               *)
C25_TagsArePrefixes ==
    \A f \in Handles(1) : \A k \in 1..Len(tags[1][f]) :
        /\ tags[1][f][k] /= <<>>
        /\ tags[1][f][k] /= None
        /\ \E j \in 1..Len(segs[1][f]) :
              /\ tags[1][f][k] = join(SubSeq(segs[1][f], 1, j))
              /\ NumChildren(tag_tree[1], SubSeq(segs[1][f], 1, j)) >= 2

-----------------------------------------------------------------------------
(* C26: after any sequence of adds in which every handle is added once and *)
(* starts with an empty tag list, no tag occurs more than once in the tag  *)
(* list of a handle: the tag a node gives a handle on its way down and the *)
(* tag the node gives retroactively never reach the same handle.           *)
C26_NoDuplicateTags ==
    \A f \in Handles(1) : \A k \in 1..Len(tags[1][f]) :
        Count(tags[1][f], tags[1][f][k]) = 1

\* a-x-1, a-y-1, a-y-2, then a-x-2: the first two handles were given a
\* retroactively, the last two on their way through a, which tagged none of
\* them a second time when a-x and a-y branched
C26_Witness ==
    /\ segs[1] = <<N_ax1, N_ay1, N_ay2, N_ax2>>
    /\ tags[1][1] = <<T_a, T_ax>>
    /\ tags[1][2] = <<T_a, T_ay>>
    /\ tags[1][3] = <<T_a, T_ay>>
    /\ tags[1][4] = <<T_a, T_ax>>

-----------------------------------------------------------------------------
(* C27: given the same sequence of names, AutoTag of _tagging.py and the   *)
(* _AutoTag of noxopt.py and of __init__.py leave every handle with the    *)
(* same tag list.                                                          *)
C27_VariantsAgree ==
    \A v \in Variants :
        /\ Len(legacy[v].tags) = Len(tags[1])
        /\ \A f \in Handles(1) : legacy[v].tags[f] = tags[1][f]

-----------------------------------------------------------------------------
(* Vocabulary of the registry properties *)

\* the flag strings of the Options added to the parser: those of its
\* arguments after the help argument it is created with
AddedToParser == UNION {Range(parser[k].flags) : k \in 2..Len(parser)}

(* C28: after any sequence of _add_option_to_parser calls on one group,     *)
(* those that raised included, a flag string is recorded in the flag        *)
(* registry if and only if an Option carrying it has been added to the      *)
(* shared parser.                                                           *)
C28_RegistryMatchesParser ==
    DOMAIN options_by_flags = AddedToParser

(* C29: a declaration of a session that raises the conflict error leaves   *)
(* the flag registry and the shared parser as they were before it started. *)
C29_FailedDeclarationAtomic ==
    [][(decl'.n = decl.n + 1 /\ decl'.raised = Conflicting) =>
          /\ options_by_flags' = options_by_flags
          /\ parser' = parser]_vars

====
